---- MODULE Spec2Model ----
(***************************************************************************)
(* Model of biblioteca.py: the library service (Biblioteca), its in-memory *)
(* book repository, the loan life cycle (Prestamo) and the fine            *)
(* computation.  Objects are identified by their position in the list that *)
(* owns them: libros[i] is the i-th Libro added to the repository,         *)
(* usuarios[i] the i-th registered Usuario, prestamos[i] the i-th Prestamo.*)
(* A Prestamo refers to its Usuario and its Libro by these positions.      *)
(* Time is counted in ticks, TicksPorDia ticks to a day; datetime.now() is *)
(* an input of every operation that reads the clock.                       *)
(***************************************************************************)
EXTENDS Integers, Sequences, FiniteSets, TLC

VARIABLES libros, usuarios, prestamos, resultado, consola

vars == <<libros, usuarios, prestamos, resultado, consola>>

----------------------------------------------------------------------------
(* Bounds of the model *)

MaxLibros == 2
MaxUsuarios == 2
MaxPrestamos == 2
MaxId == 2
MaxDias == 10
TicksPorDia == 2

(* Program constants *)

DIAS_MAXIMO == 7
MULTA_POR_DIA == 500

Ids == 1..MaxId
Titulos == {"1984"}
Autores == {"George Orwell"}
Nombres == {"Felipe Toro"}

(* Clock readings offered to the operations of the library service: the    *)
(* start, a partial day later, and one day past the grace period.  The     *)
(* clock is the wall clock: nothing orders the readings of two calls.      *)
Relojes == {0, 1, (DIAS_MAXIMO + 1) * TicksPorDia}

(* Every clock reading, for the fine computation on its own. *)
Fechas == 0..(MaxDias * TicksPorDia + 1)

(* None is the empty sequence, a present value v the sequence <<v>>. *)
None == <<>>
Some(v) == <<v>>

----------------------------------------------------------------------------
(* Constructors *)

Libro(id_libro, titulo, autor, disponible) ==
    [id_libro |-> id_libro, titulo |-> titulo, autor |-> autor,
     disponible |-> disponible]

Usuario_ConDeuda(id_usuario, nombre) ==
    [id_usuario |-> id_usuario, nombre |-> nombre, multas |-> MULTA_POR_DIA]

Usuario(id_usuario, nombre) ==
    [id_usuario |-> id_usuario, nombre |-> nombre, multas |-> 0]

Prestamo(usuario, libro, ahora) ==
    [usuario |-> usuario, libro |-> libro, fecha_prestamo |-> ahora,
     devuelto |-> FALSE, fecha_devolucion |-> None]

(* next((x for x in xs if cond), None): the first position of S, 0 if none *)
Primero_Ultimo(S) ==
    IF S = {} THEN 0 ELSE CHOOSE i \in S : \A j \in S : i >= j

Primero(S) == IF S = {} THEN 0 ELSE CHOOSE i \in S : \A j \in S : i <= j

----------------------------------------------------------------------------
(* Prestamo *)

(* timedelta.days: whole days, rounded towards minus infinity *)
DiasTranscurridos_Redondeo(desde, hasta) ==
    (hasta - desde + TicksPorDia - 1) \div TicksPorDia

DiasTranscurridos(desde, hasta) == (hasta - desde) \div TicksPorDia

devolver_SinMarcar(p, ahora) ==
    [p EXCEPT !.fecha_devolucion = Some(ahora)]

devolver(p, ahora) ==
    [p EXCEPT !.devuelto = TRUE, !.fecha_devolucion = Some(ahora)]

calcular_multa_SiempreAhora(p, ahora) ==
    LET dias_prestados == DiasTranscurridos(p.fecha_prestamo, ahora)
    IN  IF dias_prestados > DIAS_MAXIMO
        THEN (dias_prestados - DIAS_MAXIMO) * MULTA_POR_DIA
        ELSE 0

calcular_multa_SinUmbral(p, ahora) ==
    LET dias_prestados ==
            IF ~p.devuelto
            THEN DiasTranscurridos(p.fecha_prestamo, ahora)
            ELSE DiasTranscurridos(p.fecha_prestamo, p.fecha_devolucion[1])
    IN  (dias_prestados - DIAS_MAXIMO) * MULTA_POR_DIA

calcular_multa(p, ahora) ==
    LET dias_prestados ==
            IF ~p.devuelto
            THEN DiasTranscurridos(p.fecha_prestamo, ahora)
            ELSE DiasTranscurridos(p.fecha_prestamo, p.fecha_devolucion[1])
    IN  IF dias_prestados > DIAS_MAXIMO
        THEN (dias_prestados - DIAS_MAXIMO) * MULTA_POR_DIA
        ELSE 0

----------------------------------------------------------------------------
(* Biblioteca: the lookups of prestar_libro and devolver_libro *)

BuscarUsuario_Cualquiera(id_usuario) == Primero(DOMAIN usuarios)

BuscarUsuario(id_usuario) ==
    Primero({i \in DOMAIN usuarios : usuarios[i].id_usuario = id_usuario})

BuscarLibroDisponible_SinDisponible(id_libro) ==
    Primero({i \in DOMAIN libros : libros[i].id_libro = id_libro})

BuscarLibroDisponible(id_libro) ==
    Primero({i \in DOMAIN libros :
                libros[i].id_libro = id_libro /\ libros[i].disponible})

BuscarPrestamo_SinUsuario(id_usuario, id_libro) ==
    Primero({i \in DOMAIN prestamos :
                /\ libros[prestamos[i].libro].id_libro = id_libro
                /\ ~prestamos[i].devuelto})

BuscarPrestamo_SinDevuelto(id_usuario, id_libro) ==
    Primero({i \in DOMAIN prestamos :
                /\ usuarios[prestamos[i].usuario].id_usuario = id_usuario
                /\ libros[prestamos[i].libro].id_libro = id_libro})

BuscarPrestamo(id_usuario, id_libro) ==
    Primero({i \in DOMAIN prestamos :
                /\ usuarios[prestamos[i].usuario].id_usuario = id_usuario
                /\ libros[prestamos[i].libro].id_libro = id_libro
                /\ ~prestamos[i].devuelto})

(* libro.disponible = False, in prestar_libro *)
MarcarPrestado_Nada(libro) == libros

MarcarPrestado(libro) == [libros EXCEPT ![libro].disponible = FALSE]

(* self.libro.disponible = True, in Prestamo.devolver *)
MarcarDisponible_Nada(libro) == libros

MarcarDisponible(libro) == [libros EXCEPT ![libro].disponible = TRUE]

(* The last call made on the library service: the operation and its       *)
(* arguments, the reading of datetime.now() if the call read the clock,    *)
(* the position of the Prestamo the call created or found (0 if none), and *)
(* the value returned.                                                     *)
Llamada(op, id_usuario, id_libro, ahora, prestamo, ret) ==
    [op |-> op, id_usuario |-> id_usuario, id_libro |-> id_libro,
     ahora |-> ahora, prestamo |-> prestamo, ret |-> ret]

(* The console of the menu: the option last chosen, the texts typed at its *)
(* identifier prompts, the message it printed, and whether the menu loop   *)
(* is still running.  Only the menu writes it.                             *)
Consola(opcion, entradas, mensaje, en_bucle) ==
    [opcion |-> opcion, entradas |-> entradas, mensaje |-> mensaje,
     en_bucle |-> en_bucle]

----------------------------------------------------------------------------
(* Operations *)

Init ==
    /\ libros = <<>>
    /\ usuarios = <<>>
    /\ prestamos = <<>>
    /\ resultado = Llamada("init", 0, 0, None, 0, None)
    /\ consola = Consola("", <<>>, "", TRUE)

registrar_usuario(id_usuario, nombre) ==
    /\ Len(usuarios) < MaxUsuarios
    /\ usuarios' = Append(usuarios, Usuario(id_usuario, nombre))
    /\ resultado' = Llamada("registrar_usuario", id_usuario, 0, None, 0, None)
    /\ UNCHANGED <<libros, prestamos>>

agregar_libro(id_libro, titulo, autor, disponible) ==
    /\ Len(libros) < MaxLibros
    /\ libros' = Append(libros, Libro(id_libro, titulo, autor, disponible))
    /\ resultado' = Llamada("agregar_libro", 0, id_libro, None, 0, None)
    /\ UNCHANGED <<usuarios, prestamos>>

prestar_libro(id_usuario, id_libro, ahora) ==
    LET usuario == BuscarUsuario(id_usuario)
        libro == BuscarLibroDisponible(id_libro)
    IN  IF usuario # 0 /\ libro # 0
        THEN /\ Len(prestamos) < MaxPrestamos
             /\ prestamos' = Append(prestamos, Prestamo(usuario, libro, ahora))
             /\ libros' = MarcarPrestado(libro)
             /\ resultado' = Llamada("prestar_libro", id_usuario, id_libro,
                                     Some(ahora), Len(prestamos) + 1,
                                     Some(Len(prestamos) + 1))
             /\ UNCHANGED usuarios
        ELSE /\ resultado' = Llamada("prestar_libro", id_usuario, id_libro,
                                     None, 0, None)
             /\ UNCHANGED <<libros, usuarios, prestamos>>

(* the loan found is taken out of the list instead of kept, closed *)
devolver_libro_Quitar(id_usuario, id_libro, ahora) ==
    LET prestamo == BuscarPrestamo(id_usuario, id_libro)
    IN  IF prestamo # 0
        THEN LET devuelto == devolver(prestamos[prestamo], ahora)
                 multa == calcular_multa(devuelto, ahora)
             IN  /\ prestamos' = SubSeq(prestamos, 1, prestamo - 1)
                                   \o SubSeq(prestamos, prestamo + 1,
                                             Len(prestamos))
                 /\ libros' = MarcarDisponible(devuelto.libro)
                 /\ usuarios' = [usuarios EXCEPT
                                 ![devuelto.usuario].multas = @ + multa]
                 /\ resultado' = Llamada("devolver_libro", id_usuario,
                                         id_libro, Some(ahora), prestamo,
                                         multa)
        ELSE /\ resultado' = Llamada("devolver_libro", id_usuario, id_libro,
                                     None, 0, 0)
             /\ UNCHANGED <<libros, usuarios, prestamos>>

devolver_libro(id_usuario, id_libro, ahora) ==
    LET prestamo == BuscarPrestamo(id_usuario, id_libro)
    IN  IF prestamo # 0
        THEN LET devuelto == devolver(prestamos[prestamo], ahora)
                 multa == calcular_multa(devuelto, ahora)
             IN  /\ prestamos' = [prestamos EXCEPT ![prestamo] = devuelto]
                 /\ libros' = MarcarDisponible(devuelto.libro)
                 /\ usuarios' = [usuarios EXCEPT
                                 ![devuelto.usuario].multas = @ + multa]
                 /\ resultado' = Llamada("devolver_libro", id_usuario,
                                         id_libro, Some(ahora), prestamo,
                                         multa)
        ELSE /\ resultado' = Llamada("devolver_libro", id_usuario, id_libro,
                                     None, 0, 0)
             /\ UNCHANGED <<libros, usuarios, prestamos>>

Next ==
    \/ \E id \in Ids, nombre \in Nombres :
         registrar_usuario(id, nombre) /\ UNCHANGED consola
    \/ \E id \in Ids, titulo \in Titulos, autor \in Autores,
          disponible \in BOOLEAN :
            agregar_libro(id, titulo, autor, disponible) /\ UNCHANGED consola
    \/ \E u \in Ids, l \in Ids, ahora \in Relojes :
         prestar_libro(u, l, ahora) /\ UNCHANGED consola
    \/ \E u \in Ids, l \in Ids, ahora \in Relojes :
         devolver_libro(u, l, ahora) /\ UNCHANGED consola

Spec == Init /\ [][Next]_vars

----------------------------------------------------------------------------
(* The fine computation on its own: one Prestamo with any loan date, open  *)
(* or closed at any return date (test_calculo_multa_prestamo_atrasado      *)
(* closes a loan at a date of its choice), asked for its fine at any clock *)
(* reading.                                                                *)

PrestamosConFecha ==
    {Prestamo(1, 1, f) : f \in Fechas}
        \cup {devolver(Prestamo(1, 1, f), d) : f \in Fechas, d \in Fechas}

InitMulta ==
    /\ \E p \in PrestamosConFecha :
         /\ prestamos = <<p>>
         /\ libros = <<Libro(1, "1984", "George Orwell", p.devuelto)>>
         /\ usuarios = <<Usuario(1, "Felipe Toro")>>
    /\ resultado = Llamada("init", 0, 0, None, 0, None)
    /\ consola = Consola("", <<>>, "", TRUE)

consultar_multa(k, ahora) ==
    /\ resultado' = Llamada("calcular_multa", 0, 0, Some(ahora), k,
                            calcular_multa(prestamos[k], ahora))
    /\ UNCHANGED <<libros, usuarios, prestamos>>

NextMulta ==
    \E k \in DOMAIN prestamos, ahora \in Fechas :
        consultar_multa(k, ahora) /\ UNCHANGED consola

SpecMulta == InitMulta /\ [][NextMulta]_vars

----------------------------------------------------------------------------
(* The catalog search on its own.  A text is a sequence of characters; the *)
(* characters are a lower-case letter, its capital, a capital S and the    *)
(* sharp s, whose capital form is two characters ("ß".upper() = "SS",      *)
(* "SS".lower() = "ss", "ß".lower() = "ß").                                *)

MaxTexto == 2

Alfabeto == {"a", "A", "S", "ß"}

TextosDeLargo(n) == UNION {[1..k -> Alfabeto] : k \in 0..n}

Textos == TextosDeLargo(MaxTexto)

(* str.lower(), character by character *)
LowerChar(c) ==
    CASE c = "A" -> "a"
      [] c = "S" -> "s"
      [] OTHER -> c

lower(texto) == [i \in DOMAIN texto |-> LowerChar(texto[i])]

(* sub in texto *)
Contiene_NoVacio(sub, texto) ==
    /\ sub # <<>>
    /\ \E i \in 0..(Len(texto) - Len(sub)) :
         SubSeq(texto, i + 1, i + Len(sub)) = sub

Contiene(sub, texto) ==
    \E i \in 0..(Len(texto) - Len(sub)) :
        SubSeq(texto, i + 1, i + Len(sub)) = sub

Coincide(l, criterio) ==
    \/ Contiene(lower(criterio), lower(l.titulo))
    \/ Contiene(lower(criterio), lower(l.autor))

(* [l for l in self.libros if ...]: the positions, in list order, of the   *)
(* first n books that match                                                *)
RECURSIVE Filtrar(_, _)
Filtrar(n, criterio) ==
    IF n = 0 THEN <<>>
    ELSE IF Coincide(libros[n], criterio)
         THEN Append(Filtrar(n - 1, criterio), n)
         ELSE Filtrar(n - 1, criterio)

buscar_libro(criterio) == Filtrar(Len(libros), criterio)

buscar(criterio) ==
    /\ resultado' = Llamada("buscar_libro", 0, 0, None, 0,
                            [criterio |-> criterio,
                             libros |-> buscar_libro(criterio)])
    /\ UNCHANGED <<libros, usuarios, prestamos>>

NextBuscar ==
    \/ \E titulo \in Textos, autor \in TextosDeLargo(1) :
         agregar_libro(1, titulo, autor, TRUE) /\ UNCHANGED consola
    \/ \E criterio \in Textos : buscar(criterio) /\ UNCHANGED consola

SpecBuscar == Init /\ [][NextBuscar]_vars

----------------------------------------------------------------------------
(* The console menu: the library preloaded with two patrons and three      *)
(* books, and the options that read identifiers (1 register, 2 add book,   *)
(* 4 lend, 5 return) and 0 (leave).  An identifier is typed as a text and  *)
(* converted with int(); the options that only print are left out.         *)

MaxEntrada == 1
MaxAltas == 1

AlfabetoEntrada == {"1", " ", "x"}

Entradas == UNION {[1..k -> AlfabetoEntrada] : k \in 0..MaxEntrada}

Digitos == {"0", "1", "2", "3", "4", "5", "6", "7", "8", "9"}

Digito(c) ==
    CASE c = "0" -> 0 [] c = "1" -> 1 [] c = "2" -> 2 [] c = "3" -> 3
      [] c = "4" -> 4 [] c = "5" -> 5 [] c = "6" -> 6 [] c = "7" -> 7
      [] c = "8" -> 8 [] c = "9" -> 9

(* int() ignores blanks around the number *)
RECURSIVE Strip(_)
Strip(texto) ==
    IF texto = <<>> THEN texto
    ELSE IF Head(texto) = " " THEN Strip(Tail(texto))
    ELSE IF texto[Len(texto)] = " "
         THEN Strip(SubSeq(texto, 1, Len(texto) - 1))
    ELSE texto

RECURSIVE Decimal(_)
Decimal(cifras) ==
    IF cifras = <<>> THEN 0
    ELSE 10 * Decimal(SubSeq(cifras, 1, Len(cifras) - 1))
         + Digito(cifras[Len(cifras)])

(* int(input(...)): the number typed, None where int() raises ValueError *)
int_SinValidar(texto) ==
    LET cifras == Strip(texto)
    IN  IF cifras # <<>> /\ \A i \in DOMAIN cifras : cifras[i] \in Digitos
        THEN Some(Decimal(cifras))
        ELSE Some(0)

int_(texto) ==
    LET cifras == Strip(texto)
    IN  IF cifras # <<>> /\ \A i \in DOMAIN cifras : cifras[i] \in Digitos
        THEN Some(Decimal(cifras))
        ELSE None

UsuariosPrecargados ==
    <<Usuario(1, "Felipe Toro"), Usuario(2, "Gerardo Cerda")>>

LibrosPrecargados ==
    <<Libro(1, "Cien años de soledad", "Gabriel García Márquez", TRUE),
      Libro(2, "1984", "George Orwell", TRUE),
      Libro(3, "Python para todos", "Charles Severance", TRUE)>>

InitMenu ==
    /\ usuarios = UsuariosPrecargados
    /\ libros = LibrosPrecargados
    /\ prestamos = <<>>
    /\ resultado = Llamada("init", 0, 0, None, 0, None)
    /\ consola = Consola("", <<>>, "", TRUE)

(* except Exception as e: print(f"Error al ...: {e}") *)
ErrorDeEntrada(opcion, entradas, mensaje) ==
    /\ consola' = Consola(opcion, entradas, mensaje, TRUE)
    /\ UNCHANGED <<libros, usuarios, prestamos, resultado>>

(* multa is not None, of the int that devolver_libro returns *)
NoEsNone(multa) == multa \in Int

Opcion1(entrada, nombre) ==
    /\ consola.en_bucle
    /\ IF int_(entrada) = None
       THEN ErrorDeEntrada("1", <<entrada>>, "Error al registrar usuario")
       ELSE /\ Len(usuarios) < Len(UsuariosPrecargados) + MaxAltas
            /\ usuarios' = Append(usuarios, Usuario(int_(entrada)[1], nombre))
            /\ resultado' = Llamada("registrar_usuario", int_(entrada)[1], 0,
                                    None, 0, None)
            /\ consola' = Consola("1", <<entrada>>,
                                  "Usuario registrado correctamente.", TRUE)
            /\ UNCHANGED <<libros, prestamos>>

Opcion2(entrada, titulo, autor) ==
    /\ consola.en_bucle
    /\ IF int_(entrada) = None
       THEN ErrorDeEntrada("2", <<entrada>>, "Error al agregar libro")
       ELSE /\ Len(libros) < Len(LibrosPrecargados) + MaxAltas
            /\ libros' = Append(libros,
                                Libro(int_(entrada)[1], titulo, autor, TRUE))
            /\ resultado' = Llamada("agregar_libro", 0, int_(entrada)[1],
                                    None, 0, None)
            /\ consola' = Consola("2", <<entrada>>,
                                  "Libro agregado correctamente.", TRUE)
            /\ UNCHANGED <<usuarios, prestamos>>

Opcion4(entrada_usuario, entrada_libro, ahora) ==
    /\ consola.en_bucle
    /\ IF int_(entrada_usuario) = None
       THEN ErrorDeEntrada("4", <<entrada_usuario>>, "Error al prestar libro")
       ELSE IF int_(entrada_libro) = None
       THEN ErrorDeEntrada("4", <<entrada_usuario, entrada_libro>>,
                           "Error al prestar libro")
       ELSE /\ prestar_libro(int_(entrada_usuario)[1], int_(entrada_libro)[1],
                             ahora)
            /\ consola' =
                 Consola("4", <<entrada_usuario, entrada_libro>>,
                         IF resultado'.ret # None
                         THEN "Libro prestado correctamente."
                         ELSE "No se pudo prestar el libro",
                         TRUE)

Opcion5(entrada_usuario, entrada_libro, ahora) ==
    /\ consola.en_bucle
    /\ IF int_(entrada_usuario) = None
       THEN ErrorDeEntrada("5", <<entrada_usuario>>, "Error al devolver libro")
       ELSE IF int_(entrada_libro) = None
       THEN ErrorDeEntrada("5", <<entrada_usuario, entrada_libro>>,
                           "Error al devolver libro")
       ELSE /\ devolver_libro(int_(entrada_usuario)[1],
                              int_(entrada_libro)[1], ahora)
            /\ consola' =
                 Consola("5", <<entrada_usuario, entrada_libro>>,
                         IF NoEsNone(resultado'.ret)
                         THEN "Libro devuelto. Multa aplicada"
                         ELSE "No se encontró el préstamo pendiente",
                         TRUE)

Opcion0 ==
    /\ consola.en_bucle
    /\ consola' = Consola("0", <<>>, "Saliendo del sistema", FALSE)
    /\ UNCHANGED <<libros, usuarios, prestamos, resultado>>

NextMenu ==
    \/ \E e \in Entradas, nombre \in Nombres : Opcion1(e, nombre)
    \/ \E e \in Entradas, titulo \in Titulos, autor \in Autores :
         Opcion2(e, titulo, autor)
    \/ \E eu \in Entradas, el \in Entradas, ahora \in Relojes :
         Opcion4(eu, el, ahora)
    \/ \E eu \in Entradas, el \in Entradas, ahora \in Relojes :
         Opcion5(eu, el, ahora)
    \/ Opcion0

SpecMenu == InitMenu /\ [][NextMenu]_vars

----------------------------------------------------------------------------
(* Vocabulary of the properties *)

Activos == {i \in DOMAIN prestamos : ~prestamos[i].devuelto}

ActivosDeLibro(l) == {i \in Activos : prestamos[i].libro = l}

(* the active loans whose book carries id_libro *)
ActivosConIdLibro(id_libro) ==
    {i \in Activos : libros[prestamos[i].libro].id_libro = id_libro}

(* the active loans whose patron and book carry the two ids *)
ActivosDelPar(id_usuario, id_libro) ==
    {i \in ActivosConIdLibro(id_libro) :
        usuarios[prestamos[i].usuario].id_usuario = id_usuario}

Registrado(id_usuario) ==
    \E u \in DOMAIN usuarios : usuarios[u].id_usuario = id_usuario

EnCatalogo(id_libro) ==
    \E l \in DOMAIN libros : libros[l].id_libro = id_libro

HayDisponible(id_libro) ==
    \E l \in DOMAIN libros :
        libros[l].id_libro = id_libro /\ libros[l].disponible

SinCambios == UNCHANGED <<libros, usuarios, prestamos>>

----------------------------------------------------------------------------
(* C1: in every reachable state each book has at most one active           *)
(* (unreturned) loan referring to it.                                      *)
C1_UnPrestamoActivoPorLibro ==
    \A l \in DOMAIN libros : Cardinality(ActivosDeLibro(l)) <= 1

(* a book lent, returned and lent again: one closed and one active loan *)
C1_Witness ==
    \E l \in DOMAIN libros :
        /\ Cardinality(ActivosDeLibro(l)) = 1
        /\ \E i \in DOMAIN prestamos :
              prestamos[i].libro = l /\ prestamos[i].devuelto

----------------------------------------------------------------------------
(* A step that changes the state and leaves resultado'.op = op is a call   *)
(* of op: every operation records itself in resultado.                     *)

(* C2, as stated: after a successful lend the returned loan's book is      *)
(* unavailable, and while a lent book is not returned every lend call with *)
(* its book id, for any patron id, returns none.                           *)
C2_Original ==
    /\ [](resultado.op = "prestar_libro" /\ resultado.ret # None
            => ~libros[prestamos[resultado.ret[1]].libro].disponible)
    /\ [][resultado'.op = "prestar_libro"
            /\ ActivosConIdLibro(resultado'.id_libro) # {}
          => resultado'.ret = None]_vars

(* C2, amended: after a successful lend the returned loan's book is        *)
(* unavailable, and while a lent book is not returned no lend call lends   *)
(* it again: a lend call with its book id returns none unless another      *)
(* catalog book with the same id is available (and the patron id is        *)
(* registered), in which case it lends that other book.                    *)
C2_NoSePrestaDosVeces ==
    /\ [](resultado.op = "prestar_libro" /\ resultado.ret # None
            => ~libros[prestamos[resultado.ret[1]].libro].disponible)
    /\ [][resultado'.op = "prestar_libro"
            /\ ActivosConIdLibro(resultado'.id_libro) # {}
          => IF Registrado(resultado'.id_usuario)
                /\ HayDisponible(resultado'.id_libro)
             THEN /\ resultado'.ret # None
                  /\ \A i \in Activos :
                       prestamos'[resultado'.ret[1]].libro # prestamos[i].libro
             ELSE resultado'.ret = None]_vars

(* a lend refused for a registered patron because the book is on loan *)
C2_Witness ==
    /\ resultado.op = "prestar_libro"
    /\ resultado.ret = None
    /\ Registrado(resultado.id_usuario)
    /\ ActivosConIdLibro(resultado.id_libro) # {}

(* C3, as stated: lend returns none and changes nothing when the patron id *)
(* is not registered, when no catalog book has the book id, or when the    *)
(* book with the book id is on loan.                                       *)
C3_Original ==
    [][resultado'.op = "prestar_libro"
        /\ \/ ~Registrado(resultado'.id_usuario)
           \/ ~EnCatalogo(resultado'.id_libro)
           \/ ActivosConIdLibro(resultado'.id_libro) # {}
       => resultado'.ret = None /\ SinCambios]_vars

(* C3, amended: lend returns none and changes nothing when the patron id   *)
(* is not registered, when no catalog book has the book id, or when every  *)
(* catalog book with the book id is unavailable (on loan, or inserted      *)
(* unavailable).                                                           *)
C3_PrestamoRechazado ==
    [][resultado'.op = "prestar_libro"
        /\ \/ ~Registrado(resultado'.id_usuario)
           \/ ~EnCatalogo(resultado'.id_libro)
           \/ \A l \in DOMAIN libros :
                libros[l].id_libro = resultado'.id_libro
                    => ~libros[l].disponible
       => resultado'.ret = None /\ SinCambios]_vars

(* a lend refused for an unregistered patron id while the book asked for   *)
(* is in the catalog and available, with loans already in the list         *)
C3_Witness ==
    /\ resultado.op = "prestar_libro"
    /\ resultado.ret = None
    /\ ~Registrado(resultado.id_usuario)
    /\ HayDisponible(resultado.id_libro)
    /\ prestamos # <<>>

----------------------------------------------------------------------------
(* The fine as section 4.3 of the specification states it: the whole days  *)
(* of referencia - fecha_prestamo are the d with d days <= elapsed <       *)
(* d + 1 days; 500 for each whole day beyond 7.                            *)
DiasEnteros(fecha_prestamo, referencia) ==
    CHOOSE d \in -(MaxDias + 2)..(MaxDias + 2) :
        /\ d * TicksPorDia <= referencia - fecha_prestamo
        /\ referencia - fecha_prestamo < (d + 1) * TicksPorDia

MultaEsperada(fecha_prestamo, referencia) ==
    LET d == DiasEnteros(fecha_prestamo, referencia)
    IN  IF d > 7 THEN (d - 7) * 500 ELSE 0

(* C4: when return_loan finds an active loan matching both ids, it marks   *)
(* that loan returned with return_date = now, makes that loan's book       *)
(* available, adds exactly the computed fine to that loan's patron's       *)
(* balance and returns that fine; no other loan, book or patron changes.   *)
C4_Devolucion ==
    [][resultado'.op = "devolver_libro"
        /\ ActivosDelPar(resultado'.id_usuario, resultado'.id_libro) # {}
       => LET k == resultado'.prestamo
              ahora == resultado'.ahora[1]
              multa == MultaEsperada(prestamos[k].fecha_prestamo, ahora)
          IN  /\ k \in ActivosDelPar(resultado'.id_usuario,
                                     resultado'.id_libro)
              /\ resultado'.ahora # None
              /\ prestamos' =
                   [prestamos EXCEPT ![k] =
                       [usuario |-> prestamos[k].usuario,
                        libro |-> prestamos[k].libro,
                        fecha_prestamo |-> prestamos[k].fecha_prestamo,
                        devuelto |-> TRUE,
                        fecha_devolucion |-> <<ahora>>]]
              /\ libros' =
                   [l \in DOMAIN libros |->
                       IF l = prestamos[k].libro
                       THEN [libros[l] EXCEPT !.disponible = TRUE]
                       ELSE libros[l]]
              /\ usuarios' =
                   [u \in DOMAIN usuarios |->
                       IF u = prestamos[k].usuario
                       THEN [usuarios[u] EXCEPT
                               !.multas = usuarios[u].multas + multa]
                       ELSE usuarios[u]]
              /\ resultado'.ret = multa]_vars

(* a late return that charged a patron who already owed a fine, with a     *)
(* second book and a second patron registered                              *)
C4_Witness ==
    /\ resultado.op = "devolver_libro"
    /\ resultado.prestamo # 0
    /\ resultado.ret > 0
    /\ usuarios[prestamos[resultado.prestamo].usuario].multas > resultado.ret
    /\ Len(libros) > 1
    /\ Len(usuarios) > 1

(* the active loans that matched the pair of the last return_loan call     *)
(* before that call: those matching now and the one it closed              *)
ActivosDelParAntes ==
    ActivosDelPar(resultado.id_usuario, resultado.id_libro)
        \cup ({resultado.prestamo} \ {0})

DevueltoDosVeces ==
    /\ resultado.op = "devolver_libro"
    /\ resultado'.op = "devolver_libro"
    /\ resultado'.id_usuario = resultado.id_usuario
    /\ resultado'.id_libro = resultado.id_libro

(* C5, as stated: of two return_loan calls in succession for the same      *)
(* (patron_id, book_id), the second finds no active loan, returns 0 and    *)
(* leaves the fine balance as the first call left it.                      *)
C5_Original ==
    [][DevueltoDosVeces
       => /\ ActivosDelPar(resultado.id_usuario, resultado.id_libro) = {}
          /\ resultado'.prestamo = 0
          /\ resultado'.ret = 0
          /\ usuarios' = usuarios]_vars

(* C5, amended: of two return_loan calls in succession for the same        *)
(* (patron_id, book_id), when at most one active loan matched the pair     *)
(* before the first call, the second finds no active loan, returns 0 and   *)
(* leaves the fine balance as the first call left it.                      *)
C5_SegundaDevolucion ==
    [][DevueltoDosVeces /\ Cardinality(ActivosDelParAntes) <= 1
       => /\ ActivosDelPar(resultado.id_usuario, resultado.id_libro) = {}
          /\ resultado'.prestamo = 0
          /\ resultado'.ret = 0
          /\ usuarios' = usuarios]_vars

(* a return that found nothing, for a pair whose loan is closed with a     *)
(* fine charged                                                            *)
C5_Witness ==
    /\ resultado.op = "devolver_libro"
    /\ resultado.prestamo = 0
    /\ resultado.ret = 0
    /\ \E i \in DOMAIN prestamos :
         /\ prestamos[i].devuelto
         /\ usuarios[prestamos[i].usuario].id_usuario = resultado.id_usuario
         /\ libros[prestamos[i].libro].id_libro = resultado.id_libro
         /\ usuarios[prestamos[i].usuario].multas > 0

(* C6: return_loan returns 0 and changes no state whenever no active loan  *)
(* matches both ids: the book on loan to another patron, the matching loan *)
(* already closed, or an id unknown.                                       *)
C6_DevolucionSinPrestamo ==
    [][resultado'.op = "devolver_libro"
        /\ ActivosDelPar(resultado'.id_usuario, resultado'.id_libro) = {}
       => resultado'.ret = 0 /\ SinCambios]_vars

(* a return refused for a registered patron while the book is on loan to   *)
(* a patron with another id                                                *)
C6_Witness ==
    /\ resultado.op = "devolver_libro"
    /\ resultado.prestamo = 0
    /\ resultado.ret = 0
    /\ Registrado(resultado.id_usuario)
    /\ ActivosConIdLibro(resultado.id_libro) # {}

----------------------------------------------------------------------------
(* The reference date of the loan the last calcular_multa call was about:  *)
(* its return date if it is closed, else the clock reading of the call.    *)
Referencia ==
    LET p == prestamos[resultado.prestamo]
    IN  IF p.devuelto THEN p.fecha_devolucion[1] ELSE resultado.ahora[1]

(* C7: the fine of a loan is (elapsed_days - 7) * 500 when elapsed_days >  *)
(* 7 and 0 otherwise, elapsed_days being the whole-day floor of            *)
(* reference_date - loan_date: 10 days give 1500, 8 days 500, 7 days or    *)
(* fewer 0.                                                                *)
C7_Multa ==
    resultado.op = "calcular_multa"
    => LET fecha_prestamo == prestamos[resultado.prestamo].fecha_prestamo
           d == DiasEnteros(fecha_prestamo, Referencia)
       IN  /\ resultado.ret = MultaEsperada(fecha_prestamo, Referencia)
           /\ d = 10 => resultado.ret = 1500
           /\ d = 8 => resultado.ret = 500
           /\ d <= 7 => resultado.ret = 0

(* a closed loan returned half a day short of 8 days, asked at a later     *)
(* clock reading, whose fine is 0                                          *)
C7_Witness ==
    /\ resultado.op = "calcular_multa"
    /\ prestamos[resultado.prestamo].devuelto
    /\ Referencia - prestamos[resultado.prestamo].fecha_prestamo
         = 8 * TicksPorDia - 1
    /\ resultado.ahora[1] > Referencia
    /\ resultado.ret = 0

(* C8: a patron's fine balance starts at 0 and never decreases in any step *)
(* of register_patron, add_book, lend and return_loan, whatever the clock  *)
(* readings at lend and return time.                                       *)
C8_MultasNoDecrecen ==
    [][/\ \A u \in DOMAIN usuarios :
            u \in DOMAIN usuarios'
            /\ usuarios'[u].multas >= usuarios[u].multas
       /\ \A u \in DOMAIN usuarios' \ DOMAIN usuarios :
            usuarios'[u].multas = 0]_vars

(* a patron who owes a fine, just returned a loan at a clock reading       *)
(* earlier than the loan date                                              *)
C8_Witness ==
    /\ resultado.op = "devolver_libro"
    /\ resultado.prestamo # 0
    /\ resultado.ahora[1] < prestamos[resultado.prestamo].fecha_prestamo
    /\ usuarios[prestamos[resultado.prestamo].usuario].multas > 0

(* C9: a loan is created active, with no return date; once closed it is    *)
(* never active again and its return date never changes; its patron, book  *)
(* and loan date never change.                                             *)
C9_CicloDeVida ==
    [][/\ \A i \in DOMAIN prestamos :
            /\ i \in DOMAIN prestamos'
            /\ prestamos'[i].usuario = prestamos[i].usuario
            /\ prestamos'[i].libro = prestamos[i].libro
            /\ prestamos'[i].fecha_prestamo = prestamos[i].fecha_prestamo
            /\ prestamos[i].devuelto
                 => /\ prestamos'[i].devuelto
                    /\ prestamos'[i].fecha_devolucion
                         = prestamos[i].fecha_devolucion
            /\ prestamos'[i].devuelto <=> prestamos'[i].fecha_devolucion # None
       /\ \A i \in DOMAIN prestamos' \ DOMAIN prestamos :
            ~prestamos'[i].devuelto /\ prestamos'[i].fecha_devolucion = None]_vars

(* a closed loan whose patron and book have a later loan, closed at a      *)
(* different clock reading                                                 *)
C9_Witness ==
    \E i, j \in DOMAIN prestamos :
        /\ i < j
        /\ prestamos[i].usuario = prestamos[j].usuario
        /\ prestamos[i].libro = prestamos[j].libro
        /\ prestamos[i].devuelto
        /\ prestamos[j].devuelto
        /\ prestamos[i].fecha_devolucion # prestamos[j].fecha_devolucion

----------------------------------------------------------------------------
(* lend succeeds for a registered patron id and an available book, and     *)
(* leaves the lent book unavailable                                        *)
PrestamoConcedido ==
    resultado'.op = "prestar_libro"
    /\ Registrado(resultado'.id_usuario)
    /\ HayDisponible(resultado'.id_libro)
    => /\ resultado'.ret # None
       /\ ~libros'[prestamos'[resultado'.ret[1]].libro].disponible

(* a successful lend followed at once by return_loan for the same ids,     *)
(* with fewer than 8 whole days between the loan date and the clock        *)
(* reading of the return                                                   *)
IdaYVuelta ==
    /\ resultado.op = "prestar_libro"
    /\ resultado.ret # None
    /\ resultado'.op = "devolver_libro"
    /\ resultado'.id_usuario = resultado.id_usuario
    /\ resultado'.id_libro = resultado.id_libro
    /\ resultado'.ahora # None
         => DiasEnteros(prestamos[resultado.prestamo].fecha_prestamo,
                        resultado'.ahora[1]) < 8

(* return_loan returns 0, the lent book is available again and the fine    *)
(* balances are what they were                                             *)
VueltaSinMulta ==
    /\ resultado'.ret = 0
    /\ libros'[prestamos[resultado.prestamo].libro].disponible
    /\ usuarios' = usuarios

(* C10, as stated: for a registered patron and an available book, lend     *)
(* succeeds and leaves the book unavailable; return_loan within the grace  *)
(* period then returns 0, makes the book available again and leaves the    *)
(* patron's fine balance as it was.                                        *)
C10_Original ==
    [][PrestamoConcedido /\ (IdaYVuelta => VueltaSinMulta)]_vars

(* C10, amended: the same, provided the loan just made is the only active  *)
(* loan matching the patron id and the book id (another one can exist when *)
(* two catalog books share the id; return_loan then closes the older loan).*)
C10_IdaYVuelta ==
    [][/\ PrestamoConcedido
       /\ IdaYVuelta
            /\ ActivosDelPar(resultado.id_usuario, resultado.id_libro)
                 = {resultado.prestamo}
          => VueltaSinMulta]_vars

(* a loan returned half a day short of 8 days, at no charge, by a patron   *)
(* who owed a fine before: the book is available and the balance kept      *)
C10_Witness ==
    /\ resultado.op = "devolver_libro"
    /\ resultado.prestamo # 0
    /\ resultado.ret = 0
    /\ resultado.ahora[1] - prestamos[resultado.prestamo].fecha_prestamo
         = 8 * TicksPorDia - 1
    /\ libros[prestamos[resultado.prestamo].libro].disponible
    /\ usuarios[prestamos[resultado.prestamo].usuario].multas > 0

----------------------------------------------------------------------------
(* C11: for any sequence of books inserted into the catalog, search("")    *)
(* returns all of them, each once per insertion, in insertion order.       *)
C11_BusquedaVacia ==
    resultado.op = "buscar_libro" /\ resultado.ret.criterio = <<>>
    => resultado.ret.libros = [i \in 1..Len(libros) |-> i]

(* the empty query asked of a catalog that holds the same book twice *)
C11_Witness ==
    /\ resultado.op = "buscar_libro"
    /\ resultado.ret.criterio = <<>>
    /\ Len(libros) = MaxLibros
    /\ libros[1] = libros[2]
    /\ libros[1].titulo # <<>>

----------------------------------------------------------------------------
(* Ignoring case, as the specification asks: two texts are the same when   *)
(* their case foldings are, the folding of the sharp s being "ss"; the     *)
(* capital form of a text is what str.upper() gives.                       *)
PlegarChar(c) ==
    CASE c = "A" -> <<"a">>
      [] c = "S" -> <<"s">>
      [] c = "ß" -> <<"s", "s">>
      [] OTHER -> <<c>>

RECURSIVE Plegar(_)
Plegar(texto) ==
    IF texto = <<>> THEN <<>>
    ELSE PlegarChar(Head(texto)) \o Plegar(Tail(texto))

MayusculaChar(c) ==
    CASE c = "a" -> <<"A">>
      [] c = "ß" -> <<"S", "S">>
      [] OTHER -> <<c>>

RECURSIVE Mayusculas(_)
Mayusculas(texto) ==
    IF texto = <<>> THEN <<>>
    ELSE MayusculaChar(Head(texto)) \o Mayusculas(Tail(texto))

CoincideSinCaja(l, criterio) ==
    \/ Contiene(Plegar(criterio), Plegar(l.titulo))
    \/ Contiene(Plegar(criterio), Plegar(l.autor))

(* C12: search(query) returns exactly the catalog books whose title or     *)
(* author contains query as a substring when case is ignored, in catalog   *)
(* insertion order, and modifies neither the catalog nor any book; the     *)
(* same query in any letter case returns the same result.                  *)
C12_Original ==
    /\ [](resultado.op = "buscar_libro"
            => LET r == resultado.ret.libros
                   q == resultado.ret.criterio
               IN  /\ \A i, j \in DOMAIN r : i < j => r[i] < r[j]
                   /\ {r[i] : i \in DOMAIN r}
                        = {n \in DOMAIN libros : CoincideSinCaja(libros[n], q)}
                   /\ r = buscar_libro(Mayusculas(q))
                   /\ r = buscar_libro(lower(q)))
    /\ [][resultado'.op = "buscar_libro" => libros' = libros]_vars

----------------------------------------------------------------------------
(* C13, as stated: in every reachable state at most one active loan        *)
(* matches any pair (patron_id, book_id), so the loan return_loan closes   *)
(* is the unique match.                                                    *)
C13_Original ==
    \A id_usuario \in Ids, id_libro \in Ids :
        Cardinality(ActivosDelPar(id_usuario, id_libro)) <= 1

LibrosConId(id_libro) ==
    {l \in DOMAIN libros : libros[l].id_libro = id_libro}

(* C13, amended: at most one active loan matches a pair (patron_id,        *)
(* book_id) whose book_id only one catalog book carries, and the loan      *)
(* return_loan closes is then the unique match; when catalog books share   *)
(* the book_id several active loans can match, and return_loan closes the  *)
(* earliest of them in the loan list.                                      *)
C13_PrimerPrestamoDelPar ==
    /\ [](\A id_usuario \in Ids, id_libro \in Ids :
            Cardinality(LibrosConId(id_libro)) <= 1
                => Cardinality(ActivosDelPar(id_usuario, id_libro)) <= 1)
    /\ [][resultado'.op = "devolver_libro"
            /\ ActivosDelPar(resultado'.id_usuario, resultado'.id_libro) # {}
          => /\ resultado'.prestamo
                  \in ActivosDelPar(resultado'.id_usuario, resultado'.id_libro)
             /\ \A j \in ActivosDelPar(resultado'.id_usuario,
                                       resultado'.id_libro) :
                  resultado'.prestamo <= j
             /\ prestamos'[resultado'.prestamo].devuelto]_vars

(* a return that closed the earlier of two active loans matching its pair: *)
(* the later one is still active                                           *)
C13_Witness ==
    /\ resultado.op = "devolver_libro"
    /\ resultado.prestamo # 0
    /\ \E j \in ActivosDelPar(resultado.id_usuario, resultado.id_libro) :
         j > resultado.prestamo

----------------------------------------------------------------------------
(* C14: the fine of a closed loan is computed from its return date and its *)
(* loan date only, so it is the same at every later clock reading; the     *)
(* fine of an active loan is computed from the current clock reading and   *)
(* its loan date.                                                          *)
C14_MultaSegunEstado ==
    [][resultado'.op = "calcular_multa"
       => LET p == prestamos[resultado'.prestamo]
          IN  IF p.devuelto
              THEN /\ resultado'.ret
                        = MultaEsperada(p.fecha_prestamo,
                                        p.fecha_devolucion[1])
                   /\ resultado.op = "calcular_multa"
                        /\ resultado.prestamo = resultado'.prestamo
                      => resultado'.ret = resultado.ret
              ELSE resultado'.ret
                     = MultaEsperada(p.fecha_prestamo, resultado'.ahora[1])]_vars

(* a closed loan that costs 500, asked at a clock reading at which an      *)
(* active loan of the same loan date would cost something else             *)
C14_Witness ==
    /\ resultado.op = "calcular_multa"
    /\ prestamos[resultado.prestamo].devuelto
    /\ resultado.ret = 500
    /\ MultaEsperada(prestamos[resultado.prestamo].fecha_prestamo,
                     resultado.ahora[1]) # 500

----------------------------------------------------------------------------
(* a book is unavailable exactly when an active loan refers to it *)
Coherente(l) == ~libros[l].disponible <=> ActivosDeLibro(l) # {}

(* C15: every catalog book inserted with available = true is, in every     *)
(* reachable state, unavailable if and only if some active loan in the     *)
(* loan list refers to it: it is so when inserted, and every step keeps it *)
(* so.                                                                     *)
C15_DisponibleSiNoPrestado ==
    [][\A l \in DOMAIN libros' :
         IF l \in DOMAIN libros
         THEN Coherente(l) => Coherente(l)'
         ELSE libros'[l].disponible => Coherente(l)']_vars

(* one book on loan and unavailable, another returned and available, both  *)
(* with a loan in the list                                                 *)
C15_Witness ==
    \E l, m \in DOMAIN libros :
        /\ ~libros[l].disponible /\ ActivosDeLibro(l) # {}
        /\ libros[m].disponible /\ ActivosDeLibro(m) = {}
        /\ \E i \in DOMAIN prestamos :
             prestamos[i].libro = m /\ prestamos[i].devuelto

(* the fines of the closed loans of patron u among the first n loans *)
RECURSIVE SumaMultas(_, _)
SumaMultas(u, n) ==
    IF n = 0 THEN 0
    ELSE SumaMultas(u, n - 1)
         + IF prestamos[n].usuario = u /\ prestamos[n].devuelto
           THEN MultaEsperada(prestamos[n].fecha_prestamo,
                              prestamos[n].fecha_devolucion[1])
           ELSE 0

(* C16: in every reachable state each patron's fine balance is the sum of  *)
(* the fines of the closed loans in the loan list that refer to that       *)
(* patron; active loans contribute nothing.                                *)
C16_MultasSonLaSuma ==
    \A u \in DOMAIN usuarios :
        usuarios[u].multas = SumaMultas(u, Len(prestamos))

(* a patron charged 500 for a loan closed a day late, who holds an active  *)
(* loan that adds nothing to the balance                                   *)
C16_Witness ==
    \E u \in DOMAIN usuarios :
        /\ usuarios[u].multas = 500
        /\ \E i \in Activos : prestamos[i].usuario = u
        /\ \E i \in DOMAIN prestamos :
             prestamos[i].usuario = u /\ prestamos[i].devuelto

(* C17: lend and return_loan never add, remove or reorder catalog books or *)
(* registered patrons; the loan list is append-only: lend appends exactly  *)
(* one loan when it succeeds, and no operation removes or reorders a loan. *)
C17_ListasEstables ==
    [][/\ resultado'.op \in {"prestar_libro", "devolver_libro"}
          => /\ Len(libros') = Len(libros)
             /\ \A l \in DOMAIN libros :
                  /\ libros'[l].id_libro = libros[l].id_libro
                  /\ libros'[l].titulo = libros[l].titulo
                  /\ libros'[l].autor = libros[l].autor
             /\ Len(usuarios') = Len(usuarios)
             /\ \A u \in DOMAIN usuarios :
                  /\ usuarios'[u].id_usuario = usuarios[u].id_usuario
                  /\ usuarios'[u].nombre = usuarios[u].nombre
       /\ Len(prestamos') =
            Len(prestamos)
              + IF resultado'.op = "prestar_libro" /\ resultado'.ret # None
                THEN 1 ELSE 0
       /\ \A i \in DOMAIN prestamos :
            /\ i \in DOMAIN prestamos'
            /\ prestamos'[i].usuario = prestamos[i].usuario
            /\ prestamos'[i].libro = prestamos[i].libro
            /\ prestamos'[i].fecha_prestamo = prestamos[i].fecha_prestamo]_vars

(* the first of two loans of different books to different patrons just     *)
(* returned: both loans, both books and both patrons are still in place    *)
C17_Witness ==
    /\ resultado.op = "devolver_libro"
    /\ resultado.prestamo = 1
    /\ Len(prestamos) = 2
    /\ prestamos[1].libro # prestamos[2].libro
    /\ prestamos[1].usuario # prestamos[2].usuario
    /\ ~prestamos[2].devuelto

----------------------------------------------------------------------------
(* The console menu *)

(* a text that int() converts: decimal digits, blanks allowed around them *)
EsEntero(texto) ==
    \E a \in 0..Len(texto), b \in 0..Len(texto) :
        /\ a + b < Len(texto)
        /\ \A i \in 1..Len(texto) :
             IF i <= a \/ i > Len(texto) - b
             THEN texto[i] = " "
             ELSE texto[i] \in {"0", "1", "2", "3", "4", "5", "6", "7", "8", "9"}

ErrorDeOpcion(opcion) ==
    CASE opcion = "1" -> "Error al registrar usuario"
      [] opcion = "2" -> "Error al agregar libro"
      [] opcion = "4" -> "Error al prestar libro"
      [] opcion = "5" -> "Error al devolver libro"

(* option 5 answered with two texts that are integers *)
DevolucionPorMenu ==
    /\ consola'.opcion = "5"
    /\ Len(consola'.entradas) = 2
    /\ \A i \in 1..2 : EsEntero(consola'.entradas[i])
    /\ resultado'.op = "devolver_libro"

(* C18: in the return option of the menu, when no pending loan exists for  *)
(* the user id and book id typed, the console prints the message that no   *)
(* pending loan was found for that combination, and not the message that   *)
(* the book was returned and a fine applied.                               *)
C18_Original ==
    [][(/\ DevolucionPorMenu
        /\ ActivosDelPar(resultado'.id_usuario, resultado'.id_libro) = {})
          => /\ consola'.mensaje = "No se encontró el préstamo pendiente"
             /\ consola'.mensaje # "Libro devuelto. Multa aplicada"]_vars

(* C19: in the register, add-book, lend and return options of the menu, an *)
(* identifier typed that is not an integer gives the option's error        *)
(* message, the menu loop goes on, and patrons, books, loans and fine      *)
(* balances stay as they were.                                             *)
C19_EntradaNoEntera ==
    [][(/\ consola'.opcion \in {"1", "2", "4", "5"}
        /\ \E i \in DOMAIN consola'.entradas : ~EsEntero(consola'.entradas[i]))
          => /\ consola'.mensaje = ErrorDeOpcion(consola'.opcion)
             /\ consola'.en_bucle
             /\ SinCambios]_vars

(* the lend option answered with a user id and then a text that is no      *)
(* integer, while a loan is pending: the error is reported, the loop goes  *)
(* on and the loan is still pending                                        *)
C19_Witness ==
    /\ consola.opcion = "4"
    /\ Len(consola.entradas) = 2
    /\ EsEntero(consola.entradas[1])
    /\ ~EsEntero(consola.entradas[2])
    /\ consola.mensaje = "Error al prestar libro"
    /\ consola.en_bucle
    /\ Activos # {}

====
